---- MODULE Spec2Model ----
(***************************************************************************)
(* LighthouseInitialEstimator (cflib/localization/                         *)
(* lighthouse_initial_estimator.py): estimate() as a state machine, one    *)
(* action per step of its four phases, with the rigid-transform algebra    *)
(* computed on integer 3x3 matrices exactly as the code computes it.       *)
(***************************************************************************)
EXTENDS Integers, Sequences, FiniteSets, TLC

VARIABLES
    matched_samples,  \* list[LhCfPoseSample]: the caller's sample objects
    bs_poses,         \* dict[int, Pose] of estimate(): the Beacon Pose Table
    all_bs,           \* local of _calc_remaining_bs_poses
    to_find,          \* local of _calc_remaining_bs_poses
    remaining,        \* local of _calc_remaining_bs_poses
    idx,              \* position of the running for loop (1-based)
    pc,               \* position in estimate()
    err,              \* the exception estimate() ended with, or NoError
    result,           \* the value estimate() returned, or NoTable
    passes,           \* history: passes of the while loop completed or begun
    run,              \* history: 1 in the first call, 2 in a repeated call
    first,            \* history: outcome of the first call
    first_table,      \* history: the value the first call returned, or NoTable
    chosen,           \* history: known_bs at line 117 by pass and sample, first call
    alg               \* scratch state of the algebra round trip

vars == <<matched_samples, bs_poses, all_bs, to_find, remaining, idx, pc,
          err, result, passes, run, first, first_table, chosen, alg>>

-----------------------------------------------------------------------------
(* Bounds *)

MaxSamples == 3
MaxBs == 3
MaxCoord == 1

Beacons == 1..MaxBs

-----------------------------------------------------------------------------
(* numpy on 3-vectors and 3x3 matrices *)

I3 == <<<<1, 0, 0>>, <<0, 1, 0>>, <<0, 0, 1>>>>
Rz == <<<<0, -1, 0>>, <<1, 0, 0>>, <<0, 0, 1>>>>
Rx == <<<<1, 0, 0>>, <<0, 0, -1>>, <<0, 1, 0>>>>
Ry == <<<<0, 0, 1>>, <<0, 1, 0>>, <<-1, 0, 0>>>>
Zero3 == <<0, 0, 0>>

transpose(M) == [i \in 1..3 |-> [j \in 1..3 |-> M[j][i]]]

dot_mm(A, B) ==
    [i \in 1..3 |-> [j \in 1..3 |->
        A[i][1] * B[1][j] + A[i][2] * B[2][j] + A[i][3] * B[3][j]]]

dot_mv(A, v) ==
    [i \in 1..3 |-> A[i][1] * v[1] + A[i][2] * v[2] + A[i][3] * v[3]]

vadd(u, v) == [i \in 1..3 |-> u[i] + v[i]]
vsub(u, v) == [i \in 1..3 |-> u[i] - v[i]]
vneg(v) == [i \in 1..3 |-> 0 - v[i]]

Pose(R, t) == [rot_matrix |-> R, translation |-> t]

det(M) ==
    M[1][1] * (M[2][2] * M[3][3] - M[2][3] * M[3][2])
        - M[1][2] * (M[2][1] * M[3][3] - M[2][3] * M[3][1])
        + M[1][3] * (M[2][1] * M[3][2] - M[2][2] * M[3][1])

\* Orthonormal with determinant +1: a rotation, not a reflection
IsRotation(M) == dot_mm(transpose(M), M) = I3 /\ det(M) = 1

-----------------------------------------------------------------------------
(* Rigid-transform algebra *)

\* A slip in the inversion: the transpose of pose1_ref2's rotation is dropped.
map_cf_pos_to_cf_pos_NoTranspose(pose1_ref1, pose1_ref2) ==
    LET R == dot_mm(pose1_ref1.rot_matrix, pose1_ref2.rot_matrix)
        t == vsub(pose1_ref1.translation, dot_mv(R, pose1_ref2.translation))
    IN  Pose(R, t)

map_cf_pos_to_cf_pos(pose1_ref1, pose1_ref2) ==
    LET R_inv_ref2 == transpose(pose1_ref2.rot_matrix)
        R == dot_mm(pose1_ref1.rot_matrix, R_inv_ref2)
        t == vsub(pose1_ref1.translation, dot_mv(R, pose1_ref2.translation))
    IN  Pose(R, t)

\* The offset of frame 2's origin is left out of the translation.
map_pose_to_ref_frame_NoOffset(pose1_ref1, pose1_ref2, pose2_ref2) ==
    LET m == map_cf_pos_to_cf_pos(pose1_ref1, pose1_ref2)
        R_o2_in_1 == m.rot_matrix
        t == dot_mv(R_o2_in_1, pose2_ref2.translation)
        R == dot_mm(R_o2_in_1, pose2_ref2.rot_matrix)
    IN  Pose(R, t)

map_pose_to_ref_frame(pose1_ref1, pose1_ref2, pose2_ref2) ==
    LET m == map_cf_pos_to_cf_pos(pose1_ref1, pose1_ref2)
        R_o2_in_1 == m.rot_matrix
        t_o2_in_1 == m.translation
        t == vadd(dot_mv(R_o2_in_1, pose2_ref2.translation), t_o2_in_1)
        R == dot_mm(R_o2_in_1, pose2_ref2.rot_matrix)
    IN  Pose(R, t)

-----------------------------------------------------------------------------
(* The caller's data: samples, observations and the relative-pose solver *)

Worlds == {"consistent", "noisy"}

RotSeq == <<I3, Rz, Rx, Ry>>
RotOf(j) == RotSeq[(j % Len(RotSeq)) + 1]

\* Where beacon b and the rig of sample k really are (sample 1's rig at the origin).
TrueBs(b) == Pose(RotOf(b), <<b, 0, 1>>)
TrueCf(k) == Pose(RotOf(k - 1), <<k - 1, 0, 2 * (k - 1)>>)

\* Beacon b as seen from the rig of sample k; in the noisy world every
\* observation is off by its own rigid error, so two samples disagree.
SeenFrom(k, b, w) ==
    LET Rt == transpose(TrueCf(k).rot_matrix)
        R == dot_mm(Rt, TrueBs(b).rot_matrix)
        t == dot_mv(Rt, vsub(TrueBs(b).translation, TrueCf(k).translation))
    IN  IF w = "consistent" THEN Pose(R, t)
        ELSE Pose(dot_mm(RotOf(k * b), R), vadd(t, <<k, b, k + b>>))

\* The solver's candidates for that observation: (R, t), best first, each the
\* rig's pose in the beacon's frame.
Candidates(k, b, w) ==
    LET p == SeenFrom(k, b, w)
        R == transpose(p.rot_matrix)
        t == vneg(dot_mv(R, p.translation))
    IN  << <<R, t>>, <<dot_mm(Rz, R), vadd(t, <<0, 0, 1>>)>> >>

CandidateTable ==
    [k \in 1..MaxSamples |-> [b \in Beacons |-> [w \in Worlds |-> Candidates(k, b, w)]]]

\* LhCfPoseSample.angles_calibrated[bs]: what sample k measured of beacon b.
Angles(k, b, w, solved) == [k |-> k, bs |-> b, w |-> w, solved |-> solved]

projection_pair_list(angles) == angles

\* IppeCf.solve: the candidates, best first; none when the solver finds no
\* solution.
IppeCf_solve(sensor_positions, Q) ==
    IF ~Q.solved THEN <<>> ELSE CandidateTable[Q.k][Q.bs][Q.w]

NoPose == Pose(<<>>, <<>>)
NotEstimated == [b \in {0} |-> NoPose]
NoTable == [b \in {0} |-> NoPose]
NoError == [type |-> "none", line |-> 0]
Raised(type, line) == [type |-> type, line |-> line]

sensor_positions == "deck"

\* A sample object; key_order is the insertion order of the angles_calibrated
\* dict, which line 65 hands on to the dict of local poses.
LhCfPoseSample(angles_calibrated, key_order) ==
    [angles_calibrated |-> angles_calibrated,
     key_order |-> key_order,
     initial_est_bs_poses |-> NotEstimated,
     inital_est_pose |-> NoPose]

NumSamples == Len(matched_samples)
Pairs(vis) == {q \in (DOMAIN vis) \X Beacons : q[2] \in vis[q[1]]}

Idle == [stage |-> "idle"]

InitCall(samples) ==
    /\ matched_samples = samples
    /\ bs_poses = <<>>
    /\ all_bs = {}
    /\ to_find = {}
    /\ remaining = 0
    /\ idx = 1
    /\ pc = "angles_to_poses"
    /\ err = NoError
    /\ result = NoTable
    /\ passes = 0
    /\ run = 1
    /\ first = "none"
    /\ first_table = NoTable
    /\ chosen = <<>>
    /\ alg = Idle

RECURSIVE Ascending(_)
Ascending(S) ==
    IF S = {} THEN <<>>
    ELSE LET m == CHOOSE x \in S : \A y \in S : x <= y
         IN  <<m>> \o Ascending(S \ {m})

Reverse(q) == [i \in 1..Len(q) |-> q[Len(q) + 1 - i]]

\* The caller fills the dicts of odd samples in ascending order of beacon id
\* and those of even samples in descending order.
KeyOrder(k, S) == IF k % 2 = 1 THEN Ascending(S) ELSE Reverse(Ascending(S))

Samples(vis, w, unsolved) ==
    [k \in DOMAIN vis |->
        LhCfPoseSample([b \in vis[k] |-> Angles(k, b, w, <<k, b>> \notin unsolved)],
                       KeyOrder(k, vis[k]))]

InitIn(worlds, may_fail) ==
    \E n \in 0..MaxSamples : \E vis \in [1..n -> SUBSET Beacons] : \E w \in worlds :
        \E unsolved \in {{}} \cup {{q} : q \in IF may_fail THEN Pairs(vis) ELSE {}} :
            InitCall(Samples(vis, w, unsolved))

\* The solver keeps its contract: at least one candidate for every observation.
Init == InitIn({"noisy"}, FALSE)

\* The solver may find no candidate for one of the observations.
InitUnsolved == InitIn({"noisy"}, TRUE)

\* Noise-free data: every observation is the true relative pose.
InitConsistent == InitIn({"consistent"}, FALSE)

-----------------------------------------------------------------------------
(* estimate() *)

Raise(type, line) ==
    /\ pc' = "raised"
    /\ err' = Raised(type, line)

\* The minus sign of line 71 lands on the rotation of line 70.
local_poses_Negated(sample) ==
    [bs \in DOMAIN sample.angles_calibrated |->
        LET Q == projection_pair_list(sample.angles_calibrated[bs])
            estimate == IppeCf_solve(sensor_positions, Q)
            R_mat == [i \in 1..3 |-> vneg(transpose(estimate[1][1])[i])]
            t_vec == dot_mv(R_mat, estimate[1][2])
        IN  Pose(R_mat, t_vec)]

\* lines 64-73: the local map of one sample, from the solver's first candidate
local_poses(sample) ==
    [bs \in DOMAIN sample.angles_calibrated |->
        LET Q == projection_pair_list(sample.angles_calibrated[bs])
            estimate == IppeCf_solve(sensor_positions, Q)
            R_mat == transpose(estimate[1][1])
            t_vec == dot_mv(R_mat, vneg(estimate[1][2]))
        IN  Pose(R_mat, t_vec)]

\* estimate[0] of an empty candidate list
no_candidate(sample) ==
    \E bs \in DOMAIN sample.angles_calibrated :
        Len(IppeCf_solve(sensor_positions,
                         projection_pair_list(sample.angles_calibrated[bs]))) = 0

\* A beacon without a candidate is left out of the map and nothing is raised.
angles_to_poses_Skip ==
    /\ pc = "angles_to_poses"
    /\ matched_samples' =
         [i \in 1..NumSamples |->
             LET solved == {bs \in DOMAIN matched_samples[i].angles_calibrated :
                                matched_samples[i].angles_calibrated[bs].solved}
                 poses == local_poses([matched_samples[i] EXCEPT
                             !.angles_calibrated =
                                 [bs \in solved |-> matched_samples[i].angles_calibrated[bs]]])
             IN  [matched_samples[i] EXCEPT !.initial_est_bs_poses = poses]]
    /\ pc' = "get_reference_bs_poses"
    /\ UNCHANGED <<bs_poses, all_bs, to_find, remaining, idx, err, result,
                   passes, run, first,
                   first_table, chosen, alg>>

\* lines 63-74: every sample up to the first one that raises gets its map
angles_to_poses ==
    /\ pc = "angles_to_poses"
    /\ LET failing == {i \in 1..NumSamples : no_candidate(matched_samples[i])}
           done == {i \in 1..NumSamples : \A j \in failing : i < j}
       IN  /\ matched_samples' =
                [i \in 1..NumSamples |->
                    IF i \in done
                    THEN [matched_samples[i] EXCEPT
                            !.initial_est_bs_poses = local_poses(matched_samples[i])]
                    ELSE matched_samples[i]]
           /\ IF failing # {}
              THEN Raise("IndexError", 70)
              ELSE pc' = "get_reference_bs_poses" /\ UNCHANGED err
    /\ UNCHANGED <<bs_poses, all_bs, to_find, remaining, idx, result, passes,
                   run, first,
                   first_table, chosen, alg>>

\* A mix-up of frames: the inverse of each local pose is stored.
reference_bs_poses_Inverted(sample, table) ==
    LET est_ref_cf == sample.initial_est_bs_poses
    IN  [bs \in DOMAIN table \cup DOMAIN est_ref_cf |->
            IF bs \in DOMAIN est_ref_cf
            THEN map_cf_pos_to_cf_pos(Pose(I3, Zero3), est_ref_cf[bs])
            ELSE table[bs]]

\* lines 82-84: the table after the sample's local map is stored in it
reference_bs_poses(sample, table) ==
    LET est_ref_cf == sample.initial_est_bs_poses
    IN  [bs \in DOMAIN table \cup DOMAIN est_ref_cf |->
            IF bs \in DOMAIN est_ref_cf THEN est_ref_cf[bs] ELSE table[bs]]

\* The reference sample's own pose, the identity, is written at the seeding.
get_reference_bs_poses_WithPose ==
    /\ pc = "get_reference_bs_poses"
    /\ IF NumSamples = 0
       THEN /\ Raise("IndexError", 55)
            /\ UNCHANGED <<bs_poses, matched_samples>>
       ELSE /\ bs_poses' = reference_bs_poses(matched_samples[1], <<>>)
            /\ matched_samples' =
                 [matched_samples EXCEPT ![1].inital_est_pose = Pose(I3, Zero3)]
            /\ pc' = "calc_remaining_bs_poses"
            /\ UNCHANGED err
    /\ UNCHANGED <<all_bs, to_find, remaining, idx, result, passes, run, first,
                   first_table, chosen, alg>>

\* lines 54-55: bs_poses = {}, then _get_reference_bs_poses(matched_samples[0])
get_reference_bs_poses ==
    /\ pc = "get_reference_bs_poses"
    /\ IF NumSamples = 0
       THEN /\ Raise("IndexError", 55)
            /\ UNCHANGED bs_poses
       ELSE /\ bs_poses' = reference_bs_poses(matched_samples[1], <<>>)
            /\ pc' = "calc_remaining_bs_poses"
            /\ UNCHANGED err
    /\ UNCHANGED <<matched_samples, all_bs, to_find, remaining, idx, result,
                   passes, run, first,
                   first_table, chosen, alg>>

\* Only the reference sample is searched for beacons.
find_all_bs_ReferenceOnly(samples) ==
    UNION {DOMAIN samples[i].initial_est_bs_poses : i \in DOMAIN samples \cap {1}}

\* lines 89-91
find_all_bs(samples) ==
    UNION {DOMAIN samples[i].initial_est_bs_poses : i \in DOMAIN samples}

\* lines 88-98: up to the first test of the while loop
calc_remaining_bs_poses ==
    /\ pc = "calc_remaining_bs_poses"
    /\ all_bs' = find_all_bs(matched_samples)
    /\ to_find' = all_bs' \ DOMAIN bs_poses
    /\ remaining' = Cardinality(to_find')
    /\ idx' = 1
    /\ IF remaining' > 0
       THEN pc' = "for_sample" /\ passes' = 1
       ELSE pc' = "calc_cf_poses" /\ passes' = 0
    /\ UNCHANGED <<matched_samples, bs_poses, err, result, run, first,
                   first_table, chosen, alg>>

\* The new poses are computed and dropped: the table is left as it was.
link_sample_NoWrite(table, unfound, bs_poses_in_sample, known_bs) == table

\* Every beacon of the sample is written, the known ones included.
link_sample_Overwrite(table, unfound, bs_poses_in_sample, known_bs) ==
    LET known_global == table[known_bs]
        known_cf == bs_poses_in_sample[known_bs]
    IN  [bs \in DOMAIN table \cup DOMAIN bs_poses_in_sample |->
            IF bs \in DOMAIN bs_poses_in_sample
            THEN map_pose_to_ref_frame(known_global, known_cf,
                                       bs_poses_in_sample[bs])
            ELSE table[bs]]

\* The local pose of an unknown beacon is stored as it is, unmapped.
link_sample_Local(table, unfound, bs_poses_in_sample, known_bs) ==
    LET unknown == unfound \cap DOMAIN bs_poses_in_sample
    IN  [bs \in DOMAIN table \cup unknown |->
            IF bs \in unknown THEN bs_poses_in_sample[bs] ELSE table[bs]]

\* lines 100-117: the table after one sample is processed with bridge known_bs
link_sample(table, unfound, bs_poses_in_sample, known_bs) ==
    LET unknown == unfound \cap DOMAIN bs_poses_in_sample
        known_global == table[known_bs]
        known_cf == bs_poses_in_sample[known_bs]
    IN  [bs \in DOMAIN table \cup unknown |->
            IF bs \in unknown
            THEN map_pose_to_ref_frame(known_global, known_cf,
                                       bs_poses_in_sample[bs])
            ELSE table[bs]]

\* The iteration order of the set differs from one call to the next.
list_first_Unordered(known, at) == known

\* line 106: list(known)[0], the first element in the iteration order of the
\* set, which Python leaves open; a repeated call under the same iteration
\* order meets the element the first call met at the same pass and sample.
list_first(known, at) ==
    IF at \in DOMAIN chosen /\ chosen[at] \in known THEN {chosen[at]} ELSE known

\* The break of line 121 is taken as soon as a sample resolved a beacon.
for_sample_BreakOnProgress ==
    /\ pc = "for_sample"
    /\ LET bs_poses_in_sample == matched_samples[idx].initial_est_bs_poses
           known == DOMAIN bs_poses \cap DOMAIN bs_poses_in_sample
           at == <<passes, idx>>
       IN  IF known # {}
           THEN \E known_bs \in list_first(known, at) :
                    /\ bs_poses' = link_sample(bs_poses, to_find,
                                               bs_poses_in_sample, known_bs)
                    /\ chosen' = IF run = 1 /\ to_find \cap DOMAIN bs_poses_in_sample # {}
                                  THEN chosen @@ (at :> known_bs)
                                  ELSE chosen
           ELSE UNCHANGED <<bs_poses, chosen>>
    /\ to_find' = all_bs \ DOMAIN bs_poses'
    /\ IF to_find' # to_find \/ idx = NumSamples
       THEN pc' = "pass_end" /\ UNCHANGED idx
       ELSE idx' = idx + 1 /\ UNCHANGED pc
    /\ UNCHANGED <<matched_samples, all_bs, remaining, err, result, passes,
                   run, first, first_table, alg>>

\* lines 99-121: one sample of the for loop, with the break
for_sample ==
    /\ pc = "for_sample"
    /\ LET bs_poses_in_sample == matched_samples[idx].initial_est_bs_poses
           known == DOMAIN bs_poses \cap DOMAIN bs_poses_in_sample
           at == <<passes, idx>>
       IN  IF known # {}
           THEN \E known_bs \in list_first(known, at) :
                    /\ bs_poses' = link_sample(bs_poses, to_find,
                                               bs_poses_in_sample, known_bs)
                    /\ chosen' = IF run = 1 /\ to_find \cap DOMAIN bs_poses_in_sample # {}
                                  THEN chosen @@ (at :> known_bs)
                                  ELSE chosen
           ELSE UNCHANGED <<bs_poses, chosen>>
    /\ to_find' = all_bs \ DOMAIN bs_poses'
    /\ IF to_find' = {} \/ idx = NumSamples
       THEN pc' = "pass_end" /\ UNCHANGED idx
       ELSE idx' = idx + 1 /\ UNCHANGED pc
    /\ UNCHANGED <<matched_samples, all_bs, remaining, err, result, passes,
                   run, first, first_table, alg>>

\* The test of line 123 with > for ==: a stalled pass is not noticed.
no_progress_Never(unfound, before) == Cardinality(unfound) > before

\* No second pass: anything left after a pass counts as a stall.
no_progress_OnePass(unfound, before) == unfound # {}

\* line 123: the pass made no progress
no_progress(unfound, before) == Cardinality(unfound) = before

\* A stalled pass leaves the loop (a break) where line 124 raises.
pass_end_GiveUp ==
    /\ pc = "pass_end"
    /\ remaining' = Cardinality(to_find)
    /\ idx' = 1
    /\ IF Cardinality(to_find) < remaining /\ remaining' > 0
       THEN pc' = "for_sample" /\ passes' = passes + 1
       ELSE pc' = "calc_cf_poses" /\ UNCHANGED passes
    /\ UNCHANGED <<matched_samples, bs_poses, all_bs, to_find, err, result,
                   run, first,
                   first_table, chosen, alg>>

\* lines 123-126 and the test of the while loop
pass_end ==
    /\ pc = "pass_end"
    /\ IF no_progress(to_find, remaining)
       THEN /\ Raise("Exception", 124)
            /\ UNCHANGED <<remaining, idx, passes>>
       ELSE /\ remaining' = Cardinality(to_find)
            /\ idx' = 1
            /\ UNCHANGED err
            /\ IF remaining' > 0
               THEN pc' = "for_sample" /\ passes' = passes + 1
               ELSE pc' = "calc_cf_poses" /\ UNCHANGED passes
    /\ UNCHANGED <<matched_samples, bs_poses, all_bs, to_find, result, run,
                   first,
                   first_table, chosen, alg>>

\* The two poses handed to the mapping in the wrong order.
cf_pose_Swapped(table, est_ref_cf, ref_bs) ==
    LET pose_global == table[ref_bs]
        pose_cf == est_ref_cf[ref_bs]
    IN  map_cf_pos_to_cf_pos(pose_cf, pose_global)

\* The reference beacon's pose in the table is taken for the sample's pose.
cf_pose_Unmapped(table, est_ref_cf, ref_bs) == table[ref_bs]

\* lines 135-137: the sample's pose in the global frame through ref_bs
cf_pose(table, est_ref_cf, ref_bs) ==
    LET pose_global == table[ref_bs]
        pose_cf == est_ref_cf[ref_bs]
    IN  map_cf_pos_to_cf_pos(pose_global, pose_cf)

\* line 133: list(est_ref_cf.keys())[0], the first key inserted
first_key(sample) == sample.key_order[1]

\* A sample without a beacon is passed over and keeps the pose it had.
calc_cf_poses_SkipEmpty ==
    /\ pc = "calc_cf_poses"
    /\ matched_samples' =
         [i \in 1..NumSamples |->
             IF DOMAIN matched_samples[i].initial_est_bs_poses = {}
             THEN matched_samples[i]
             ELSE [matched_samples[i] EXCEPT !.inital_est_pose =
                     cf_pose(bs_poses, matched_samples[i].initial_est_bs_poses,
                             first_key(matched_samples[i]))]]
    /\ pc' = "return"
    /\ UNCHANGED <<bs_poses, all_bs, to_find, remaining, idx, err, result,
                   passes, run, first,
                   first_table, chosen, alg>>

\* lines 130-138: every sample up to the first one that raises gets its pose
calc_cf_poses ==
    /\ pc = "calc_cf_poses"
    /\ LET no_key == {i \in 1..NumSamples :
                        DOMAIN matched_samples[i].initial_est_bs_poses = {}}
           failing == no_key \cup
                      {i \in 1..NumSamples \ no_key :
                          first_key(matched_samples[i]) \notin DOMAIN bs_poses}
           done == {i \in 1..NumSamples : \A j \in failing : i < j}
           stop == CHOOSE i \in failing : \A j \in failing : i <= j
       IN  /\ matched_samples' =
                [i \in 1..NumSamples |->
                    IF i \in done
                    THEN [matched_samples[i] EXCEPT !.inital_est_pose =
                            cf_pose(bs_poses,
                                    matched_samples[i].initial_est_bs_poses,
                                    first_key(matched_samples[i]))]
                    ELSE matched_samples[i]]
           /\ IF failing = {}
              THEN pc' = "return" /\ UNCHANGED err
              ELSE IF stop \in no_key
                   THEN Raise("IndexError", 133)
                   ELSE Raise("KeyError", 135)
    /\ UNCHANGED <<bs_poses, all_bs, to_find, remaining, idx, result, passes,
                   run, first,
                   first_table, chosen, alg>>

\* line 59
return ==
    /\ pc = "return"
    /\ result' = bs_poses
    /\ pc' = "done"
    /\ UNCHANGED <<matched_samples, bs_poses, all_bs, to_find, remaining, idx,
                   err, passes, run, first,
                   first_table, chosen, alg>>

Next ==
    \/ angles_to_poses
    \/ get_reference_bs_poses
    \/ calc_remaining_bs_poses
    \/ for_sample
    \/ pass_end
    \/ calc_cf_poses
    \/ return

Spec == Init /\ [][Next]_vars

SpecUnsolved == InitUnsolved /\ [][Next]_vars

SpecConsistent == InitConsistent /\ [][Next]_vars

\* The caller calls estimate() again with the same sample objects in another
\* order: estimate() starts over, and the objects keep what the first call
\* wrote into them.
estimate_reordered ==
    /\ pc \in {"done", "raised"}
    /\ run = 1
    /\ \E p \in Permutations(1..NumSamples) :
        matched_samples' = [i \in 1..NumSamples |-> matched_samples[p[i]]]
    /\ bs_poses' = <<>>
    /\ all_bs' = {}
    /\ to_find' = {}
    /\ remaining' = 0
    /\ idx' = 1
    /\ pc' = "angles_to_poses"
    /\ err' = NoError
    /\ result' = NoTable
    /\ passes' = 0
    /\ run' = 2
    /\ first' = IF pc = "done" THEN "returned" ELSE "raised"
    /\ first_table' = result
    /\ chosen' = <<>>
    /\ UNCHANGED alg

NextReordered == Next \/ estimate_reordered

SpecReordered == Init /\ [][NextReordered]_vars

\* A sample object as the caller built it, before any call wrote into it
fresh(sample) == LhCfPoseSample(sample.angles_calibrated, sample.key_order)

\* The caller calls estimate() again with the same samples in the same order,
\* under the same iteration order of sets: either the very objects the first
\* call augmented, or fresh copies of them.
estimate_again ==
    /\ pc \in {"done", "raised"}
    /\ run = 1
    /\ \E augmented \in BOOLEAN :
        matched_samples' = IF augmented THEN matched_samples
                           ELSE [i \in 1..NumSamples |-> fresh(matched_samples[i])]
    /\ bs_poses' = <<>>
    /\ all_bs' = {}
    /\ to_find' = {}
    /\ remaining' = 0
    /\ idx' = 1
    /\ pc' = "angles_to_poses"
    /\ err' = NoError
    /\ result' = NoTable
    /\ passes' = 0
    /\ run' = 2
    /\ first' = IF pc = "done" THEN "returned" ELSE "raised"
    /\ first_table' = result
    /\ UNCHANGED <<chosen, alg>>

NextRepeated == Next \/ estimate_again

SpecRepeated == Init /\ [][NextRepeated]_vars

(* The algebra on its own: poses drawn from a set of rigid transforms *)

Rotations == {I3, Rz, Rx, Ry, dot_mm(Rz, Rz), dot_mm(Rz, Rx)}
Translations == {<<x, 0, z>> : x \in 0..MaxCoord, z \in (0 - MaxCoord)..0}
RigidPoses == {Pose(R, t) : R \in Rotations, t \in Translations}

InitAlgebra ==
    /\ matched_samples = <<>>
    /\ bs_poses = <<>>
    /\ all_bs = {}
    /\ to_find = {}
    /\ remaining = 0
    /\ idx = 1
    /\ pc = "algebra"
    /\ err = NoError
    /\ result = NoTable
    /\ passes = 0
    /\ run = 1
    /\ first = "none"
    /\ first_table = NoTable
    /\ chosen = <<>>
    /\ \E P1 \in RigidPoses, P2 \in RigidPoses, X \in RigidPoses :
        alg = [stage |-> "given", P1 |-> P1, P2 |-> P2, X |-> X]

\* X, known in frame 2, expressed in frame 1
express_in_frame_1 ==
    /\ alg.stage = "given"
    /\ alg' = [stage |-> "in_frame_1", P1 |-> alg.P1, P2 |-> alg.P2, X |-> alg.X,
               Y |-> map_pose_to_ref_frame(alg.P1, alg.P2, alg.X)]
    /\ UNCHANGED <<matched_samples, bs_poses, all_bs, to_find, remaining, idx,
                   pc, err, result, passes, run, first,
                   first_table, chosen>>

\* and back into frame 2, with the two known poses exchanged
express_in_frame_2 ==
    /\ alg.stage = "in_frame_1"
    /\ alg' = [stage |-> "in_frame_2", P1 |-> alg.P1, P2 |-> alg.P2, X |-> alg.X,
               Y |-> alg.Y,
               Z |-> map_pose_to_ref_frame(alg.P2, alg.P1, alg.Y)]
    /\ UNCHANGED <<matched_samples, bs_poses, all_bs, to_find, remaining, idx,
                   pc, err, result, passes, run, first,
                   first_table, chosen>>

NextAlgebra == express_in_frame_1 \/ express_in_frame_2

SpecAlgebra == InitAlgebra /\ [][NextAlgebra]_vars

-----------------------------------------------------------------------------
(* The visibility graph of the caller's samples *)

Observed(i) == DOMAIN matched_samples[i].angles_calibrated
AllObserved == UNION {Observed(i) : i \in 1..NumSamples}

RECURSIVE CoObserved(_, _)
CoObserved(S, n) ==
    IF n = 0 THEN S
    ELSE CoObserved(S \cup UNION {Observed(i) :
                        i \in {j \in 1..NumSamples : Observed(j) \cap S # {}}},
                    n - 1)

\* The beacons linked to the reference sample by a chain of co-observing samples
Linked == IF NumSamples = 0 THEN {} ELSE CoObserved(Observed(1), Cardinality(AllObserved))

AllLinked == NumSamples >= 1 /\ AllObserved \subseteq Linked
NoEmptySample == \A i \in 1..NumSamples : Observed(i) # {}
Ended == pc \in {"done", "raised"}
LinkageFailure == Raised("Exception", 124)

-----------------------------------------------------------------------------
(* Properties *)

\* C1 (as stated): whenever every observed beacon is linked to the reference
\* sample (and there is a beacon to observe), estimate() ends with no error and
\* with a table returned that holds every observed beacon.
C1_AsStated ==
    Ended =>
        ((AllLinked /\ AllObserved # {}) =>
            pc = "done" /\ err = NoError /\ DOMAIN result = AllObserved)

\* C1 (amended): whenever every sample observes at least one beacon and every
\* observed beacon is linked to the reference sample, estimate() ends with no
\* error and with a table returned that holds every observed beacon.
C1_Connected ==
    Ended =>
        ((AllLinked /\ NoEmptySample) =>
            pc = "done" /\ err = NoError /\ DOMAIN result = AllObserved)

C1_Witness ==
    /\ pc = "done"
    /\ passes >= 2
    /\ DOMAIN result = Beacons
    /\ Observed(1) # Beacons

\* C2: whenever some observed beacon is not linked to the reference sample,
\* estimate() returns no table, and the only error it ends with is the
\* linkage failure of line 124.
C2_LinkageFailure ==
    (Ended \/ result # NoTable) =>
        ((NumSamples >= 1 /\ ~(AllObserved \subseteq Linked)) =>
            pc = "raised" /\ err = LinkageFailure /\ result = NoTable)

C2_Witness ==
    /\ pc = "raised"
    /\ err = LinkageFailure
    /\ passes >= 2
    /\ DOMAIN bs_poses # Observed(1)
    /\ result = NoTable

\* C3: no step of estimate() removes a beacon from the table or changes the
\* pose the table holds for it.
C3_NeverOverwritten ==
    [][\A bs \in DOMAIN bs_poses :
          bs \in DOMAIN bs_poses' /\ bs_poses'[bs] = bs_poses[bs]]_vars

\* A sample is about to be processed through a bridge that would give an
\* already known beacon a different pose than the table holds.
C3_Witness ==
    /\ pc = "for_sample"
    /\ LET loc == matched_samples[idx].initial_est_bs_poses
           known == DOMAIN bs_poses \cap DOMAIN loc
       IN  /\ to_find \cap DOMAIN loc # {}
           /\ \E kb \in known, bs \in known :
                map_pose_to_ref_frame(bs_poses[kb], loc[kb], loc[bs]) # bs_poses[bs]

\* What is left of the while loop: the unresolved count the pass began with,
\* then the samples the pass has still to visit.
InLoop == pc \in {"for_sample", "pass_end"}
LoopRank ==
    remaining * (NumSamples + 2)
        + (IF pc = "for_sample" THEN NumSamples + 1 - idx ELSE 0)

\* C4: the propagation loop cannot run forever: inside it a step can always be
\* taken, and every step lowers LoopRank, which is never negative; it begins at
\* most as many passes as there are distinct beacons; and every pass that ends
\* either leaves strictly fewer unresolved beacons than it began with or raises
\* the linkage failure.
C4_PassesBounded ==
    /\ [](passes <= Cardinality(all_bs))
    /\ [](InLoop => LoopRank >= 0 /\ ENABLED (for_sample \/ pass_end))
    /\ [][(InLoop /\ InLoop') => LoopRank' < LoopRank]_vars
    /\ [][pc = "pass_end" =>
            \/ Cardinality(to_find) < remaining /\ remaining' < remaining
            \/ pc' = "raised" /\ err' = LinkageFailure]_vars

\* A second pass that made progress too
C4_Witness ==
    /\ pc = "pass_end"
    /\ passes >= 2
    /\ Cardinality(to_find) < remaining

\* C5: a second call on the same samples in any other order returns a table
\* exactly when the first call returned one.
C5_OrderIndependent ==
    (run = 2 /\ Ended) => (pc = "done" <=> first = "returned")

\* Both calls returned; the second was anchored on another sample than the
\* first and needed a second pass.
C5_Witness ==
    /\ run = 2
    /\ pc = "done"
    /\ first = "returned"
    /\ passes >= 2
    /\ \E bs \in Observed(1) : matched_samples[1].angles_calibrated[bs].k # 1

\* The observations the solver found no candidate for
Unsolved ==
    {q \in (1..NumSamples) \X Beacons :
        /\ q[2] \in Observed(q[1])
        /\ ~matched_samples[q[1]].angles_calibrated[q[2]].solved}

Seeded ==
    \/ pc \in {"calc_remaining_bs_poses", "for_sample", "pass_end",
               "calc_cf_poses", "return", "done"}
    \/ pc = "raised" /\ err.line \in {124, 133, 135}

\* C7: from the seeding on, the table holds for every beacon of the reference
\* sample exactly the pose of that sample's local map, and so does the table
\* returned.
C7_ReferenceUntransformed ==
    /\ Seeded =>
        \A bs \in DOMAIN matched_samples[1].initial_est_bs_poses :
            /\ bs \in DOMAIN bs_poses
            /\ bs_poses[bs] = matched_samples[1].initial_est_bs_poses[bs]
    /\ pc = "done" =>
        \A bs \in DOMAIN matched_samples[1].initial_est_bs_poses :
            /\ bs \in DOMAIN result
            /\ result[bs] = matched_samples[1].initial_est_bs_poses[bs]

\* A table returned after propagation, with two reference beacons whose local
\* poses are not the identity and that a later sample saw as well.
C7_Witness ==
    /\ pc = "done"
    /\ passes >= 1
    /\ Cardinality(Observed(1)) >= 2
    /\ \A bs \in Observed(1) : result[bs] # Pose(I3, Zero3)
    /\ \E i \in 2..NumSamples : Observed(i) \cap Observed(1) # {}

\* C8: when some sample observed no beacon, estimate() never returns a table:
\* it ends with an error, which is the linkage failure or the IndexError of
\* line 133, and in the latter case it is the first such sample that stopped
\* the pose resolver, its pose unwritten.
C8_EmptySampleFails ==
    (\E i \in 1..NumSamples : Observed(i) = {}) =>
        /\ pc \notin {"return", "done"}
        /\ result = NoTable
        /\ pc = "raised" => err \in {LinkageFailure, Raised("IndexError", 133)}
        /\ (pc = "raised" /\ err = Raised("IndexError", 133)) =>
              \A i \in 1..NumSamples :
                  (matched_samples[i].inital_est_pose # NoPose)
                      <=> (\A j \in 1..i : Observed(j) # {})

\* The pose resolver wrote the pose of a first sample and failed on a later,
\* empty one, after a propagation that had beacons to resolve.
C8_Witness ==
    /\ pc = "raised"
    /\ err = Raised("IndexError", 133)
    /\ passes >= 1
    /\ matched_samples[1].inital_est_pose # NoPose

\* C9: when estimate() has returned, the pose written onto every sample is the
\* frame-to-frame mapping of the returned table's pose and the sample's local
\* pose of a beacon the sample observed, namely the first key of its map.
C9_SamplePose ==
    pc = "done" =>
        \A i \in 1..NumSamples :
            LET loc == matched_samples[i].initial_est_bs_poses
                bs == matched_samples[i].key_order[1]
            IN  /\ bs \in DOMAIN loc
                /\ matched_samples[i].inital_est_pose
                     = map_cf_pos_to_cf_pos(result[bs], loc[bs])

\* The scenario of the spec: all three beacons in the table, and a later sample
\* that saw one beacon only, whose pose is not the one the swapped mapping gives.
C9_Witness ==
    /\ pc = "done"
    /\ DOMAIN result = Beacons
    /\ \E i \in 2..NumSamples : \E bs \in Beacons :
        /\ Observed(i) = {bs}
        /\ matched_samples[i].inital_est_pose
             # map_cf_pos_to_cf_pos(matched_samples[i].initial_est_bs_poses[bs],
                                    result[bs])

\* C10: for rigid poses P1, P2 and X, expressing X in frame 1 and the result
\* back in frame 2 gives X again.
C10_RoundTrip ==
    alg.stage = "in_frame_2" => alg.Z = alg.X

\* A round trip between two different frames that moved X on the way.
C10_Witness ==
    /\ alg.stage = "in_frame_2"
    /\ alg.P1 # alg.P2
    /\ alg.P1.rot_matrix # alg.P2.rot_matrix
    /\ alg.Y # alg.X
    /\ alg.Y.rot_matrix # alg.X.rot_matrix
    /\ alg.Z = alg.X

\* The integer matrices that are orthonormal with determinant +1; the entries
\* of an orthonormal integer matrix are within -1..1.
ProperRotations == {M \in [1..3 -> [1..3 -> -1..1]] : IsRotation(M)}

\* Every rotation the solver hands back for the observations of this world
SolverRotations ==
    {CandidateTable[k][b][w][c][1] :
        k \in 1..MaxSamples, b \in Beacons, w \in Worlds, c \in 1..2}

SolverProper == SolverRotations \subseteq ProperRotations

\* The rotations of a dict of poses are all proper.
AllProper(poses) ==
    \A bs \in DOMAIN poses \ {0} : poses[bs].rot_matrix \in ProperRotations

\* Every rotation estimate() has produced so far is proper: in the samples'
\* local maps, in the table, in the table returned and in the samples' global
\* poses.
ProducedProper ==
    /\ \A i \in 1..NumSamples :
        /\ AllProper(matched_samples[i].initial_est_bs_poses)
        /\ \/ matched_samples[i].inital_est_pose = NoPose
           \/ matched_samples[i].inital_est_pose.rot_matrix \in ProperRotations
    /\ AllProper(bs_poses)
    /\ AllProper(result)

\* C11: when every rotation the solver returns is orthonormal with determinant
\* +1, every step of estimate() that writes into the samples, the table or the
\* table returned leaves only proper rotations there, and when estimate() has
\* ended every rotation in the local maps, the table, the table returned and
\* the sample poses is orthonormal with determinant +1.
C11_RotationsProper ==
    /\ [][SolverProper =>
            /\ matched_samples' # matched_samples =>
                 \A i \in 1..NumSamples :
                    /\ AllProper(matched_samples'[i].initial_est_bs_poses)
                    /\ \/ matched_samples'[i].inital_est_pose = NoPose
                       \/ matched_samples'[i].inital_est_pose.rot_matrix
                             \in ProperRotations
            /\ \A bs \in DOMAIN bs_poses' :
                 \/ bs \in DOMAIN bs_poses /\ bs_poses'[bs] = bs_poses[bs]
                 \/ bs_poses'[bs].rot_matrix \in ProperRotations
            /\ result' # result => AllProper(result')]_vars
    /\ []((SolverProper /\ Ended) => ProducedProper)

\* A table returned after two passes, with rotations other than the identity
\* in the table and in the sample poses.
C11_Witness ==
    /\ pc = "done"
    /\ passes >= 2
    /\ \E bs \in DOMAIN result \ Observed(1) : result[bs].rot_matrix # I3
    /\ \E i \in 2..NumSamples : matched_samples[i].inital_est_pose.rot_matrix # I3
    /\ ProducedProper

Entered == DOMAIN bs_poses' \ DOMAIN bs_poses

\* The beacons of the reference sample's local map
ReferenceBeacons ==
    IF NumSamples = 0 THEN {} ELSE DOMAIN matched_samples[1].initial_est_bs_poses

\* The pose of bs in the sample's local map loc, re-expressed through the
\* mapping built from the table's pose of kb and loc's pose of kb
ReExpressed(loc, kb, bs) ==
    LET R_map == dot_mm(bs_poses[kb].rot_matrix, transpose(loc[kb].rot_matrix))
        t_map == vsub(bs_poses[kb].translation, dot_mv(R_map, loc[kb].translation))
    IN  Pose(dot_mm(R_map, loc[bs].rot_matrix),
             vadd(dot_mv(R_map, loc[bs].translation), t_map))

\* C13: a step that enters a beacon outside the reference sample into the
\* table is the processing of a sample of the for loop whose local map holds
\* that beacon and a beacon already in the table, and the pose entered is the
\* beacon's local pose re-expressed through one such known beacon (the same one
\* for all the beacons the step enters); the processing of a sample without a
\* known beacon leaves the table as it is.
C13_EnteredThroughBridge ==
    [][/\ (Entered \ ReferenceBeacons # {}) =>
            /\ pc = "for_sample"
            /\ LET loc == matched_samples[idx].initial_est_bs_poses
               IN  \E kb \in DOMAIN bs_poses \cap DOMAIN loc :
                     \A bs \in Entered :
                        /\ bs \in DOMAIN loc
                        /\ bs_poses'[bs] = ReExpressed(loc, kb, bs)
       /\ (/\ pc = "for_sample"
           /\ DOMAIN bs_poses \cap DOMAIN matched_samples[idx].initial_est_bs_poses = {})
            => bs_poses' = bs_poses]_vars

\* Beacons outside the reference sample are in the table, and the pass is
\* beyond a sample that observed beacons, none of them known even now.
C13_Witness ==
    /\ pc = "for_sample"
    /\ DOMAIN bs_poses \ Observed(1) # {}
    /\ \E j \in 2..(idx - 1) :
        /\ Observed(j) # {}
        /\ Observed(j) \cap DOMAIN bs_poses = {}

\* Every sample after the first shares a beacon with an earlier sample.
Chained ==
    \A j \in 2..NumSamples : \E i \in 1..(j - 1) : Observed(i) \cap Observed(j) # {}

\* The beacons the samples before sample j observed
ObservedBefore(j) == UNION {Observed(i) : i \in 1..(j - 1)}

\* C14: inside the loop the unresolved set is, after every sample, what the
\* table does not hold yet; and when every sample after the first shares a
\* beacon with an earlier sample, one pass resolves every beacon: when the pass
\* reaches a sample, the
\* table holds every beacon of the samples before it, a second pass never
\* begins, the pass ends with nothing left to find, the linkage failure is not
\* raised, and the pose resolver starts with every observed beacon in the table.
C14_SinglePass ==
    /\ InLoop => to_find = all_bs \ DOMAIN bs_poses
    /\ (NumSamples >= 1 /\ Chained) =>
        /\ passes <= 1
        /\ err # LinkageFailure
        /\ pc = "for_sample" => ObservedBefore(idx) \subseteq DOMAIN bs_poses
        /\ pc = "pass_end" => to_find = {}
        /\ pc \in {"calc_cf_poses", "return", "done"} => DOMAIN bs_poses = AllObserved

\* One pass sufficed although the third sample shares no beacon with the
\* reference sample: its bridge was resolved from the second sample.
C14_Witness ==
    /\ pc = "done"
    /\ passes = 1
    /\ NumSamples = 3
    /\ Chained
    /\ Observed(3) \cap Observed(1) = {}
    /\ Observed(3) \ Observed(2) # {}
    /\ DOMAIN result = AllObserved

\* Beacon b's true pose seen from the true rig pose of sample k: the inverse of
\* the rig pose composed with the beacon's pose
TrueLocal ==
    [k \in 1..MaxSamples |-> [b \in Beacons |->
        LET S_inv == map_cf_pos_to_cf_pos(Pose(I3, Zero3), TrueCf(k))
        IN  Pose(dot_mm(S_inv.rot_matrix, TrueBs(b).rot_matrix),
                 vadd(dot_mv(S_inv.rot_matrix, TrueBs(b).translation),
                      S_inv.translation))]]

TrueTable == [b \in Beacons |-> TrueBs(b)]
TrueRig == [k \in 1..MaxSamples |-> TrueCf(k)]

\* The data are noise-free: the rig of the first sample is the origin, and the
\* local pose of every beacon in every sample is the beacon's true pose seen
\* from the sample's true rig pose.
Consistent ==
    /\ TrueRig[1] = Pose(I3, Zero3)
    /\ \A i \in 1..NumSamples :
        LET loc == matched_samples[i].initial_est_bs_poses
        IN  \A b \in DOMAIN loc \ {0} : loc[b] = TrueLocal[i][b]

\* C15: with noise-free data, every pose estimate() enters into the table is
\* the beacon's true pose, whichever bridge was picked; the table returned
\* holds the true pose of every beacon; and the pose written onto every sample
\* is the sample's true rig pose, which every beacon of the sample would have
\* given as reference beacon.
C15_GroundTruth ==
    Consistent =>
        /\ \A b \in DOMAIN bs_poses : bs_poses[b] = TrueTable[b]
        /\ pc = "done" =>
            /\ DOMAIN result = AllObserved
            /\ \A b \in DOMAIN result : result[b] = TrueTable[b]
            /\ \A i \in 1..NumSamples :
                /\ matched_samples[i].inital_est_pose = TrueRig[i]
                /\ \A ref_bs \in Observed(i) :
                     cf_pose(result, matched_samples[i].initial_est_bs_poses, ref_bs)
                        = TrueRig[i]

\* A table returned after propagation; a sample that had two bridges to choose
\* from; and a rig that had moved and turned.
C15_Witness ==
    /\ pc = "done"
    /\ Consistent
    /\ passes >= 1
    /\ DOMAIN result = Beacons
    /\ \A b \in Beacons : result[b] = TrueTable[b]
    /\ \E i \in 2..NumSamples :
        /\ Cardinality(Observed(i) \cap Observed(1)) >= 2
        /\ Observed(i) \ Observed(1) # {}
    /\ \E i \in 2..NumSamples :
        /\ matched_samples[i].inital_est_pose.rot_matrix # I3
        /\ matched_samples[i].inital_est_pose.translation # Zero3

\* The beacons of all the samples' local maps
LocalBeacons ==
    UNION {DOMAIN matched_samples[i].initial_est_bs_poses \ {0} : i \in 1..NumSamples}

\* Propagation has ended without the linkage failure: estimate() is at or past
\* the pose resolver.
Propagated ==
    \/ pc \in {"calc_cf_poses", "return", "done"}
    \/ pc = "raised" /\ err.line \in {133, 135}

\* C16: once propagation has ended without the linkage failure, the keys of
\* the table are exactly the beacons of all the samples' local maps; the pose
\* resolver never raises the KeyError of line 135; and when it raises, it is
\* the IndexError of line 133 and some sample has an empty local map.
C16_TableCoversLocalMaps ==
    /\ Propagated => DOMAIN bs_poses = LocalBeacons
    /\ err # Raised("KeyError", 135)
    /\ (pc = "raised" /\ Propagated) =>
          /\ err = Raised("IndexError", 133)
          /\ \E i \in 1..NumSamples :
                DOMAIN matched_samples[i].initial_est_bs_poses = {}

\* The pose resolver failed on an empty local map, after a propagation that
\* entered beacons outside the reference sample into the table.
C16_Witness ==
    /\ pc = "raised"
    /\ err = Raised("IndexError", 133)
    /\ DOMAIN bs_poses = LocalBeacons
    /\ LocalBeacons # ReferenceBeacons
    /\ \E i \in 2..NumSamples :
        /\ Observed(i) # {}
        /\ first_key(matched_samples[i]) \notin ReferenceBeacons

\* The global-pose fields of the samples, in list order
SamplePoses == [i \in 1..NumSamples |-> matched_samples[i].inital_est_pose]

\* C17: when estimate() has ended with the linkage failure, every sample has
\* its local map written and no sample has its global pose written; and the
\* only step that writes a sample's global pose is the pose resolver, which
\* starts only with nothing left to find and every beacon of the local maps in
\* the table.
C17_PosesAfterPropagation ==
    /\ []((pc = "raised" /\ err = LinkageFailure) =>
            \A i \in 1..NumSamples :
                /\ matched_samples[i].inital_est_pose = NoPose
                /\ DOMAIN matched_samples[i].initial_est_bs_poses = Observed(i))
    /\ [][SamplePoses' # SamplePoses =>
            /\ pc = "calc_cf_poses"
            /\ err = NoError
            /\ to_find = {}
            /\ LocalBeacons \subseteq DOMAIN bs_poses]_vars

\* The linkage failure after a second pass, with beacons resolved outside the
\* reference sample and every sample still without a global pose.
C17_Witness ==
    /\ pc = "raised"
    /\ err = LinkageFailure
    /\ passes >= 2
    /\ NumSamples = MaxSamples
    /\ DOMAIN bs_poses \ ReferenceBeacons # {}
    /\ \A i \in 1..NumSamples :
        /\ matched_samples[i].inital_est_pose = NoPose
        /\ matched_samples[i].initial_est_bs_poses # NotEstimated

\* C18: when estimate() has returned, the pose written onto the reference
\* sample is the identity transform: identity rotation, zero translation.
C18_ReferenceAtOrigin ==
    pc = "done" =>
        /\ matched_samples[1].inital_est_pose.rot_matrix = I3
        /\ matched_samples[1].inital_est_pose.translation = Zero3

\* A table returned after propagation on noisy data: the reference sample is at
\* the origin, its reference beacon is not, and another sample is elsewhere.
C18_Witness ==
    /\ pc = "done"
    /\ passes >= 1
    /\ matched_samples[1].inital_est_pose = Pose(I3, Zero3)
    /\ LET loc == matched_samples[1].initial_est_bs_poses[first_key(matched_samples[1])]
       IN  loc.rot_matrix # I3 /\ loc.translation # Zero3
    /\ \E i \in 2..NumSamples :
        matched_samples[i].inital_est_pose # Pose(I3, Zero3)

====
